---- MODULE Spec2Model ----
(***************************************************************************)
(* StarSystems: the SQLite-backed repository of star systems and planets   *)
(* (src/src/starsystems/database) and the code that calls it.              *)
(*                                                                         *)
(* The durable store is the pair of tables created by initialize_schema.   *)
(* A table is a bag of rows: SQL fixes no row order and the engine, not    *)
(* the representation, is what keeps keys unique.  REAL values are kept    *)
(* as integers; None stands for SQL NULL / Python None in TEXT columns.    *)
(***************************************************************************)
EXTENDS Integers, Sequences, FiniteSets, Bags, TLC

VARIABLES
    db,             \* committed content of the database file
    last,           \* the latest repository call: its name, argument and result
    pc,             \* per caller: position inside a stepwise repository call
    txn,            \* per caller: the open transaction's view of the store
    success_count,  \* per caller: save_batch's local success_count
    failed_count,   \* per caller: save_batch's local failed_count
    given,          \* per caller: number of systems of the list taken so far
    errs,           \* per caller: number of systems whose iteration met a sqlite3.Error
    okNames,        \* per caller: names of the systems whose iteration met no error
    serial,         \* per caller: the store that save() of each system taken so far leaves
    lock,           \* caller holding the database write lock, 0 when free
    writes,         \* per caller: names whose system row the open transaction has upserted
    applied,        \* per name: the caller whose upsert of the name was committed last, 0 if none
    saved,          \* names saved without an error, and committed, since the last delete_all
    conns,          \* per caller: number of connections the caller has open
    schema          \* the tables and indexes present in the database file

vars == <<db, last, pc, txn, success_count, failed_count, given, errs, okNames,
          serial, lock, writes, applied, saved, conns, schema>>

-----------------------------------------------------------------------------
(* Bounds and sample data *)

MaxPlanets == 2
MaxBatch == 2
MaxLongBatch == 52
MaxErrs == 2

None == "<None>"

Names == {"A", "B"}
QueryNames == Names \cup {"Z"}

Headers == { <<"G2V", 10>>, <<"K5V", 20>>, <<"", 0>> }

PlanetSamples ==
    { [name |-> "b", mass |-> 1, radius |-> 1, orbit_distance |-> 1],
      [name |-> "b", mass |-> 2, radius |-> 2, orbit_distance |-> 2],
      [name |-> "c", mass |-> 0, radius |-> 0, orbit_distance |-> 0] }

PlanetLists == UNION { [1..n -> PlanetSamples] : n \in 0..MaxPlanets }

System(n, h, ps) ==
    [name |-> n, spectral_type |-> h[1], distance_ly |-> h[2], planets |-> ps]

PlanetB1 == [name |-> "b", mass |-> 1, radius |-> 1, orbit_distance |-> 1]

BatchSystems ==
    { System(n, <<"G2V", 10>>, ps) : n \in Names, ps \in { <<>>, <<PlanetB1>> } }

Systems ==
    { System("A", h, ps) : h \in Headers, ps \in PlanetLists } \cup BatchSystems


-----------------------------------------------------------------------------
(* Tables *)

EmptyStore == [star_systems |-> EmptyBag, planets |-> EmptyBag]

BagWhere(b, P(_)) == [r \in {x \in BagToSet(b) : P(x)} |-> b[r]]

RECURSIVE Fetchall(_)
Fetchall(b) ==
    IF BagToSet(b) = {} THEN <<>>
    ELSE LET r == CHOOSE x \in BagToSet(b) : TRUE
         IN  <<r>> \o Fetchall(b (-) SetToBag({r}))

SystemRow(s) ==
    [name |-> s.name, spectral_type |-> s.spectral_type, distance_ly |-> s.distance_ly]

PlanetRow(p, system_name) ==
    [name |-> p.name, mass |-> p.mass, radius |-> p.radius,
     orbit_distance |-> p.orbit_distance, system_name |-> system_name]

(* Variants of the upsert with a plausible slip: the ON CONFLICT clause     *)
(* leaves distance_ly out; the statement is a plain INSERT into a table    *)
(* without the key.                                                        *)
UpsertSystemKeepDistance(st, s) ==
    LET kconflict(r) == r.name = s.name
        kupdate(r) == IF kconflict(r)
                      THEN [r EXCEPT !.spectral_type = s.spectral_type]
                      ELSE r
    IN  IF \E r \in BagToSet(st.star_systems) : kconflict(r)
        THEN [st EXCEPT !.star_systems = BagOfAll(kupdate, @)]
        ELSE [st EXCEPT !.star_systems = @ (+) SetToBag({SystemRow(s)})]

UpsertSystemAlwaysInsert(st, s) ==
    [st EXCEPT !.star_systems = @ (+) SetToBag({SystemRow(s)})]

UpsertSystem(st, s) ==
    LET conflict(r) == r.name = s.name
        update(r) == IF conflict(r)
                     THEN [r EXCEPT !.spectral_type = s.spectral_type,
                                    !.distance_ly = s.distance_ly]
                     ELSE r
    IN  IF \E r \in BagToSet(st.star_systems) : conflict(r)
        THEN [st EXCEPT !.star_systems = BagOfAll(update, @)]
        ELSE [st EXCEPT !.star_systems = @ (+) SetToBag({SystemRow(s)})]

UpsertPlanetAlwaysInsert(st, p, system_name) ==
    [st EXCEPT !.planets = @ (+) SetToBag({PlanetRow(p, system_name)})]

UpsertPlanet(st, p, system_name) ==
    LET pconflict(r) == r.name = p.name /\ r.system_name = system_name
        pupdate(r) == IF pconflict(r)
                     THEN [r EXCEPT !.mass = p.mass, !.radius = p.radius,
                                    !.orbit_distance = p.orbit_distance]
                     ELSE r
    IN  IF \E r \in BagToSet(st.planets) : pconflict(r)
        THEN [st EXCEPT !.planets = BagOfAll(pupdate, @)]
        ELSE [st EXCEPT !.planets = @ (+) SetToBag({PlanetRow(p, system_name)})]

RECURSIVE UpsertPlanets(_, _, _, _)
UpsertPlanets(st, planets, system_name, n) ==
    IF n = 0 THEN st
    ELSE UpsertPlanet(UpsertPlanets(st, planets, system_name, n - 1),
                      planets[n], system_name)

(* The statements of one save: statement 1 upserts the system, statement   *)
(* 1+i upserts planets[i].  fail = 0: no statement raises; fail = k: the   *)
(* k-th statement raises sqlite3.Error and has no effect.                  *)
StatementCount(s) == 1 + Len(s.planets)

(* Variant: the save first deletes the planets stored for the system.      *)
UpsertStatementsPruning(st, s, fail) ==
    IF fail = 1 THEN st
    ELSE UpsertPlanets(
            UpsertSystem([st EXCEPT !.planets =
                             BagWhere(@, LAMBDA r : r.system_name # s.name)], s),
            s.planets, s.name,
            IF fail = 0 \/ fail > StatementCount(s)
            THEN Len(s.planets) ELSE fail - 2)

(* Variant: a system upsert that raises does not stop the planet upserts.  *)
UpsertStatementsPlanetsAnyway(st, s, fail) ==
    IF fail = 1 THEN UpsertPlanets(st, s.planets, s.name, Len(s.planets))
    ELSE UpsertPlanets(UpsertSystem(st, s), s.planets, s.name,
                       IF fail = 0 \/ fail > StatementCount(s)
                       THEN Len(s.planets) ELSE fail - 2)

UpsertStatements(st, s, fail) ==
    IF fail = 1 THEN st
    ELSE UpsertPlanets(UpsertSystem(st, s), s.planets, s.name,
                       IF fail = 0 \/ fail > StatementCount(s)
                       THEN Len(s.planets) ELSE fail - 2)

-----------------------------------------------------------------------------
(* Reading rows back *)

ReadText(v) == IF v = None \/ v = "" THEN "Unknown" ELSE v

ReadReal(v) == IF v = 0 THEN 0 ELSE v

PlanetOf(r) ==
    [name |-> r.name, mass |-> ReadReal(r.mass), radius |-> ReadReal(r.radius),
     orbit_distance |-> ReadReal(r.orbit_distance)]

StarSystemOf(r) ==
    [name |-> r.name, spectral_type |-> ReadText(r.spectral_type),
     distance_ly |-> ReadReal(r.distance_ly), planets |-> <<>>]

add_planet(system, planet) == [system EXCEPT !.planets = Append(@, planet)]

RECURSIVE AddPlanets(_, _)
AddPlanets(system, rows) ==
    IF rows = <<>> THEN system
    ELSE AddPlanets(add_planet(system, PlanetOf(Head(rows))), Tail(rows))

Absent == [kind |-> "absent"]

(* The planets query without its WHERE clause.                             *)
find_by_nameAllPlanets(st, name) ==
    LET found == BagWhere(st.star_systems, LAMBDA r : r.name = name)
    IN  IF BagToSet(found) = {} THEN Absent
        ELSE [kind |-> "system",
              system |-> AddPlanets(StarSystemOf(Head(Fetchall(found))),
                                    Fetchall(st.planets))]

find_by_name(st, name) ==
    LET matched == BagWhere(st.star_systems, LAMBDA r : r.name = name)
    IN  IF BagToSet(matched) = {} THEN Absent
        ELSE [kind |-> "system",
              system |-> AddPlanets(StarSystemOf(Head(Fetchall(matched))),
                                    Fetchall(BagWhere(st.planets,
                                        LAMBDA r : r.system_name = name)))]

(* systems_dict: a dict in insertion order, kept as a sequence of systems  *)
(* with one entry per key.                                                 *)
DictHas(d, k) == \E i \in 1..Len(d) : d[i].name = k

DictPut(d, system) ==
    IF DictHas(d, system.name)
    THEN [i \in 1..Len(d) |-> IF d[i].name = system.name THEN system ELSE d[i]]
    ELSE Append(d, system)

RECURSIVE LoadSystems(_, _)
LoadSystems(d, rows) ==
    IF rows = <<>> THEN d
    ELSE LoadSystems(DictPut(d, StarSystemOf(Head(rows))), Tail(rows))

(* The second loop without the test of line 133: a planet row whose        *)
(* system_name is not a key goes to the first system loaded.               *)
RECURSIVE LoadPlanetsUnmatched(_, _)
LoadPlanetsUnmatched(d, rows) ==
    IF rows = <<>> THEN d
    ELSE LET urow == Head(rows)
             key == IF DictHas(d, urow.system_name) \/ d = <<>>
                    THEN urow.system_name ELSE d[1].name
         IN  LoadPlanetsUnmatched(
                [i \in 1..Len(d) |->
                    IF d[i].name = key THEN add_planet(d[i], PlanetOf(urow)) ELSE d[i]],
                Tail(rows))

RECURSIVE LoadPlanets(_, _)
LoadPlanets(d, rows) ==
    IF rows = <<>> THEN d
    ELSE LET prow == Head(rows)
         IN  LoadPlanets(
                IF DictHas(d, prow.system_name)
                THEN [i \in 1..Len(d) |->
                        IF d[i].name = prow.system_name
                        THEN add_planet(d[i], PlanetOf(prow)) ELSE d[i]]
                ELSE d,
                Tail(rows))

find_all(st) ==
    LoadPlanets(LoadSystems(<<>>, Fetchall(st.star_systems)), Fetchall(st.planets))

count(st) == BagCardinality(st.star_systems)

(* delete_all without the DELETE FROM planets of line 209.                 *)
delete_allSystemsOnly(st) == [st EXCEPT !.star_systems = EmptyBag]

delete_all(st) == [st EXCEPT !.planets = EmptyBag, !.star_systems = EmptyBag]

-----------------------------------------------------------------------------
(* One iteration of save_batch's loop.  b holds the connection's view of   *)
(* the store (txn), the committed content (db) and the two counters.       *)
(* fail = StatementCount(s) + 1 makes the commit of this iteration raise,  *)
(* when the iteration commits at all.                                      *)

CommitEvery == 50

(* The loop without the periodic commit of lines 93-94.                    *)
BatchIterationNoCommit(b, s, fail) ==
    LET stmtRaises == fail \in 1..StatementCount(s)
    IN  [txn |-> UpsertStatements(b.txn, s, fail),
         db |-> b.db,
         committed |-> FALSE,
         success_count |-> IF stmtRaises THEN b.success_count ELSE b.success_count + 1,
         failed_count |-> IF fail # 0 THEN b.failed_count + 1 ELSE b.failed_count]

BatchIteration(b, s, fail) ==
    LET stmtRaises == fail \in 1..StatementCount(s)
        view == UpsertStatements(b.txn, s, fail)
        succ == b.success_count + 1
        commits == ~stmtRaises /\ succ % CommitEvery = 0
        commitRaises == commits /\ fail = StatementCount(s) + 1
    IN  [txn |-> view,
         db |-> IF commits /\ ~commitRaises THEN view ELSE b.db,
         committed |-> commits /\ ~commitRaises,
         success_count |-> IF stmtRaises THEN b.success_count ELSE succ,
         failed_count |-> IF stmtRaises \/ commitRaises
                          THEN b.failed_count + 1 ELSE b.failed_count]

-----------------------------------------------------------------------------
(* State *)

Callers == {1, 2}

NoRet == [kind |-> "none"]

NoSystem == [name |-> None, spectral_type |-> None, distance_ly |-> 0, planets |-> <<>>]

stepVars ==
    <<pc, txn, success_count, failed_count, given, errs, okNames, serial, lock, writes>>

Call(op, name, raised, ret, arg) ==
    [op |-> op, name |-> name, raised |-> raised, ret |-> ret, arg |-> arg,
     existed |-> FALSE, again |-> FALSE]

SchemaObjects == {"star_systems", "planets", "idx_distance", "idx_spectral_type"}

(* No call in progress.                                                    *)
NoCall ==
    /\ pc = [c \in Callers |-> "idle"]
    /\ txn = [c \in Callers |-> EmptyStore]
    /\ success_count = [c \in Callers |-> 0]
    /\ failed_count = [c \in Callers |-> 0]
    /\ given = [c \in Callers |-> 0]
    /\ errs = [c \in Callers |-> 0]
    /\ okNames = [c \in Callers |-> {}]
    /\ serial = [c \in Callers |-> EmptyStore]
    /\ lock = 0
    /\ writes = [c \in Callers |-> {}]
    /\ applied = [n \in Names |-> 0]
    /\ saved = {}
    /\ conns = [c \in Callers |-> 0]

(* A database file without rows, and no call in progress.                  *)
Fresh ==
    /\ db = EmptyStore
    /\ last = Call("init", "", FALSE, NoRet, NoSystem)
    /\ NoCall

(* The applications call initialize_schema before they use the repository. *)
Init == Fresh /\ schema = SchemaObjects

StoredNames(st) == { r.name : r \in BagToSet(st.star_systems) }

PlanetKeys(st) == { <<r.name, r.system_name>> : r \in BagToSet(st.planets) }

(* A close that commits what the connection has written.                   *)
CloseConnectionCommitting(committed, view) == view

(* get_connection closes the connection when the with block is left.  A    *)
(* close without a commit drops the open transaction: the file keeps its   *)
(* committed content.                                                      *)
CloseConnection(committed, view) == committed

(* get_connection: connect on entry to the with block; the finally clause  *)
(* closes on every way out of it: "return", "early return" or "raise".     *)
Opened(cn, c) == [cn EXCEPT ![c] = @ + 1]

(* close after the with block, without try/finally.                       *)
ReleasedOnReturn(cn, c, exit) ==
    IF exit = "return" THEN [cn EXCEPT ![c] = @ - 1] ELSE cn

Released(cn, c, exit) == [cn EXCEPT ![c] = @ - 1]

Scoped(c, exit) == conns' = Released(Opened(conns, c), c, exit)

-----------------------------------------------------------------------------
(* Calls that run to their end in one step (no other caller is active).    *)

Quiet == \A c \in Callers : pc[c] = "idle"

(* The store that save leaves: what its statements wrote when the commit   *)
(* of line 50 is reached, and what was committed before otherwise.         *)
save(st, s, fail) ==
    LET written == UpsertStatements(st, s, fail)
    IN  IF fail # 0 THEN CloseConnection(st, written) ELSE written

(* save: the with block commits on line 50; an exception leaves the block  *)
(* before the commit.  fail = StatementCount(s) + 1: the commit itself     *)
(* raises.  last.existed: the name was stored when save was called;        *)
(* last.again: the call before was a successful save of the same system.   *)
(* last.ret of a save that raised keeps the statement that raised.         *)
Save(s, fail) ==
    LET raised == fail # 0
    IN  /\ Quiet
        /\ db' = save(db, s, fail)
        /\ last' = [Call("save", s.name, raised,
                         IF raised THEN [kind |-> "raised", at |-> fail] ELSE NoRet,
                         IF raised THEN NoSystem ELSE s)
                        EXCEPT !.existed = ~raised /\ s.name \in StoredNames(db),
                               !.again = ~raised /\ last.op = "save" /\ last.arg = s]
        /\ applied' = IF raised THEN applied ELSE [applied EXCEPT ![s.name] = 1]
        /\ saved' = IF raised THEN saved ELSE saved \cup {s.name}
        /\ Scoped(1, IF raised THEN "raise" ELSE "return")
        /\ UNCHANGED schema
        /\ UNCHANGED stepVars

(* delete_all; last.ret keeps what the store held when it was called.      *)
DeleteAll ==
    /\ Quiet
    /\ db' = delete_all(db)
    /\ last' = Call("delete_all", "", FALSE,
                    [kind |-> "deleted",
                     systems |-> BagCardinality(db.star_systems),
                     orphans |-> Cardinality({ r \in BagToSet(db.planets) :
                                                r.system_name \notin StoredNames(db) })],
                    NoSystem)
    /\ applied' = [n \in Names |-> 0]
    /\ saved' = {}
    /\ Scoped(1, "return")
    /\ UNCHANGED schema
    /\ UNCHANGED stepVars

FindByName(name) ==
    /\ Quiet
    /\ last' = Call("find_by_name", name, FALSE, find_by_name(db, name), NoSystem)
    /\ Scoped(1, IF find_by_name(db, name) = Absent THEN "early return" ELSE "return")
    /\ UNCHANGED <<db, applied, saved, schema>>
    /\ UNCHANGED stepVars

FindAll ==
    /\ Quiet
    /\ last' = Call("find_all", "", FALSE, [kind |-> "list", systems |-> find_all(db)], NoSystem)
    /\ Scoped(1, "return")
    /\ UNCHANGED <<db, applied, saved, schema>>
    /\ UNCHANGED stepVars

Count ==
    /\ Quiet
    /\ last' = Call("count", "", FALSE, [kind |-> "int", n |-> count(db)], NoSystem)
    /\ Scoped(1, "return")
    /\ UNCHANGED <<db, applied, saved, schema>>
    /\ UNCHANGED stepVars

-----------------------------------------------------------------------------
(* Calls taken statement by statement.  The first statement that writes    *)
(* takes the database write lock, which the connection keeps until it      *)
(* commits or is closed; while another connection holds the lock the       *)
(* statement waits, or gives up with sqlite3.OperationalError (fail = 1).  *)

View(c) == IF lock = c THEN txn[c] ELSE db

(* A database without a write lock.                                        *)
CanWriteUnlocked(c, fail) == TRUE

CanWrite(c, fail) == lock \in {0, c} \/ fail = 1

(* The locals of a call end with the call; the connection is closed.       *)
EndCall(c) ==
    /\ pc' = [pc EXCEPT ![c] = "idle"]
    /\ txn' = [txn EXCEPT ![c] = EmptyStore]
    /\ lock' = IF lock = c THEN 0 ELSE lock
    /\ writes' = [writes EXCEPT ![c] = {}]
    /\ success_count' = [success_count EXCEPT ![c] = 0]
    /\ failed_count' = [failed_count EXCEPT ![c] = 0]
    /\ given' = [given EXCEPT ![c] = 0]
    /\ errs' = [errs EXCEPT ![c] = 0]
    /\ okNames' = [okNames EXCEPT ![c] = {}]
    /\ serial' = [serial EXCEPT ![c] = EmptyStore]

AppliedBy(c, names) == [n \in Names |-> IF n \in names THEN c ELSE applied[n]]

(* save_batch, one loop iteration per step.  The list is taken one system  *)
(* at a time; given[c] is how many have been taken.                        *)
BatchBegin(c) ==
    /\ pc[c] = "idle"
    /\ pc' = [pc EXCEPT ![c] = "batch"]
    /\ last' = Call("running", "", FALSE, NoRet, NoSystem)
    /\ conns' = Opened(conns, c)
    /\ serial' = [serial EXCEPT ![c] = db]
    /\ UNCHANGED <<db, txn, lock, writes, applied, saved, schema, success_count,
                   failed_count, given, errs, okNames>>

BatchStep(c, s, fail) ==
    LET b == BatchIteration([txn |-> View(c), db |-> db,
                             success_count |-> success_count[c],
                             failed_count |-> failed_count[c]], s, fail)
        wrote == fail # 1
        error == fail # 0
        written == IF wrote THEN writes[c] \cup {s.name} ELSE writes[c]
    IN  /\ pc[c] = "batch"
        /\ CanWrite(c, fail)
        /\ fail = StatementCount(s) + 1 => (success_count[c] + 1) % CommitEvery = 0
        /\ db' = b.db
        /\ lock' = IF b.committed THEN 0 ELSE IF wrote THEN c ELSE lock
        /\ txn' = [txn EXCEPT ![c] = IF b.committed \/ (~wrote /\ lock # c)
                                     THEN EmptyStore ELSE b.txn]
        /\ writes' = [writes EXCEPT ![c] = IF b.committed THEN {} ELSE written]
        /\ applied' = IF b.committed THEN AppliedBy(c, written) ELSE applied
        /\ saved' = IF b.committed THEN saved \cup okNames[c] \cup {s.name} ELSE saved
        /\ success_count' = [success_count EXCEPT ![c] = b.success_count]
        /\ failed_count' = [failed_count EXCEPT ![c] = b.failed_count]
        /\ given' = [given EXCEPT ![c] = @ + 1]
        /\ errs' = [errs EXCEPT ![c] = IF error THEN @ + 1 ELSE @]
        /\ okNames' = [okNames EXCEPT ![c] = IF error THEN @ ELSE @ \cup {s.name}]
        /\ serial' = [serial EXCEPT ![c] = save(@, s, fail)]
        /\ UNCHANGED <<last, pc, conns, schema>>

(* The return without the commit of line 100.                              *)
BatchReturnNoCommit(c) ==
    /\ pc[c] = "batch"
    /\ db' = CloseConnection(db, View(c))
    /\ applied' = AppliedBy(c, writes[c])
    /\ saved' = saved \cup okNames[c]
    /\ conns' = Released(conns, c, "return")
    /\ UNCHANGED schema
    /\ last' = Call("save_batch", "", FALSE,
                    [kind |-> "pair", success |-> success_count[c],
                     failed |-> failed_count[c], caller |-> c,
                     given |-> given[c], errs |-> errs[c], okNames |-> okNames[c]],
                    NoSystem)
    /\ EndCall(c)

(* The list is exhausted: the commit of line 100, then the return.         *)
BatchReturn(c) ==
    /\ pc[c] = "batch"
    /\ db' = View(c)
    /\ applied' = AppliedBy(c, writes[c])
    /\ saved' = saved \cup okNames[c]
    /\ conns' = Released(conns, c, "return")
    /\ UNCHANGED schema
    /\ last' = Call("save_batch", "", FALSE,
                    [kind |-> "pair", success |-> success_count[c],
                     failed |-> failed_count[c], caller |-> c,
                     given |-> given[c], errs |-> errs[c], okNames |-> okNames[c]],
                    NoSystem)
    /\ EndCall(c)

(* An exception leaves the with block: the commit of line 100 raises, or   *)
(* an iteration raises something that is not a sqlite3.Error.              *)
BatchRaise(c) ==
    /\ pc[c] = "batch"
    /\ db' = CloseConnection(db, View(c))
    /\ last' = Call("save_batch", "", TRUE,
                    [kind |-> "raised", success |-> success_count[c], caller |-> c,
                     okNames |-> okNames[c]], NoSystem)
    /\ EndCall(c)
    /\ conns' = Released(conns, c, "raise")
    /\ UNCHANGED <<applied, saved, schema>>

(* save, its statements in one step and its commit in the next.            *)
SaveExecute(c, s, fail) ==
    LET view == UpsertStatements(View(c), s, fail)
    IN  /\ pc[c] = "idle"
        /\ fail <= StatementCount(s)
        /\ CanWrite(c, fail)
        /\ IF fail # 0
           THEN /\ db' = CloseConnection(db, view)
                /\ last' = Call("save", s.name, TRUE, [kind |-> "raised", caller |-> c], NoSystem)
                /\ Scoped(c, "raise")
                /\ UNCHANGED <<pc, txn, lock, writes>>
           ELSE /\ pc' = [pc EXCEPT ![c] = "commit"]
                /\ conns' = Opened(conns, c)
                /\ txn' = [txn EXCEPT ![c] = view]
                /\ lock' = c
                /\ writes' = [writes EXCEPT ![c] = {s.name}]
                /\ UNCHANGED <<db, last>>
        /\ UNCHANGED <<applied, saved, schema, success_count, failed_count, given,
                       errs, okNames, serial>>

SaveCommit(c, raises) ==
    /\ pc[c] = "commit"
    /\ db' = IF raises THEN CloseConnection(db, View(c)) ELSE View(c)
    /\ applied' = IF raises THEN applied ELSE AppliedBy(c, writes[c])
    /\ saved' = IF raises THEN saved ELSE saved \cup writes[c]
    /\ conns' = Released(conns, c, IF raises THEN "raise" ELSE "return")
    /\ UNCHANGED schema
    /\ last' = Call("save", "", raises, [kind |-> "saved", caller |-> c], NoSystem)
    /\ EndCall(c)

-----------------------------------------------------------------------------
(* Spec: one caller, one call at a time.                                   *)

Next ==
    \/ \E s \in Systems : \E fail \in 0..(StatementCount(s) + 1) : Save(s, fail)
    \/ DeleteAll
    \/ \E name \in QueryNames : FindByName(name)
    \/ FindAll
    \/ Count
    \/ BatchBegin(1)
    \/ \E s \in BatchSystems : \E fail \in 0..StatementCount(s) :
         given[1] < MaxBatch /\ BatchStep(1, s, fail)
    \/ BatchReturn(1)
    \/ BatchRaise(1)

Spec == Init /\ [][Next]_vars

(* SpecBatch: one caller saving long lists, so that the periodic commit    *)
(* is reached.                                                             *)

NextBatch ==
    \/ BatchBegin(1)
    \/ \E s \in BatchSystems : \E fail \in 0..(StatementCount(s) + 1) :
         /\ given[1] < MaxLongBatch
         /\ fail # 0 => errs[1] < MaxErrs
         /\ BatchStep(1, s, fail)
    \/ BatchReturn(1)
    \/ BatchRaise(1)

SpecBatch == Init /\ [][NextBatch]_vars

(* SpecRepeat: batches over a list that can repeat a name with another     *)
(* spectral_type, distance_ly and planet.                                  *)
RepeatSystems ==
    { System("A", <<"G2V", 10>>, <<PlanetB1>>),
      System("A", <<"K5V", 20>>,
             <<[name |-> "c", mass |-> 0, radius |-> 0, orbit_distance |-> 0]>>),
      System("B", <<"G2V", 10>>, <<>>) }

NextRepeat ==
    \/ BatchBegin(1)
    \/ \E s \in RepeatSystems : \E fail \in 0..StatementCount(s) :
         given[1] < MaxBatch /\ BatchStep(1, s, fail)
    \/ BatchReturn(1)
    \/ BatchRaise(1)

SpecRepeat == Init /\ [][NextRepeat]_vars

(* SpecConcurrent: two callers on their own connections, as the startup    *)
(* background sync and a manual sync or save, writing the same name with   *)
(* different values.                                                       *)

HeaderOf(c) == IF c = 1 THEN <<"G2V", 10>> ELSE <<"K5V", 20>>

WrittenBy(c) == { System("A", HeaderOf(c), ps) : ps \in { <<>>, <<PlanetB1>> } }

NextConcurrent ==
    \E c \in Callers :
        \/ BatchBegin(c)
        \/ \E s \in WrittenBy(c) : \E fail \in 0..StatementCount(s) :
             given[c] < MaxBatch /\ BatchStep(c, s, fail)
        \/ BatchReturn(c)
        \/ BatchRaise(c)
        \/ \E s \in WrittenBy(c) : \E fail \in 0..StatementCount(s) : SaveExecute(c, s, fail)
        \/ \E raises \in BOOLEAN : SaveCommit(c, raises)

SpecConcurrent == Init /\ [][NextConcurrent]_vars

(* SpecStore: the repository over a store that other code writes too.  The *)
(* schema names a table "systems" that does not exist as the parent of     *)
(* planets.system_name and no connection turns foreign keys on, so a plain *)
(* INSERT of a planet row is accepted whatever its system_name, as long as *)
(* (name, system_name) is new.                                             *)

RawInsertPlanet(p, system_name) ==
    /\ Quiet
    /\ <<p.name, system_name>> \notin PlanetKeys(db)
    /\ db' = [db EXCEPT !.planets = @ (+) SetToBag({PlanetRow(p, system_name)})]
    /\ last' = Call("raw", system_name, FALSE, NoRet, NoSystem)
    /\ Scoped(1, "return")
    /\ UNCHANGED <<applied, saved, schema>>
    /\ UNCHANGED stepVars

NextStore ==
    \/ \E s \in BatchSystems : \E fail \in 0..(StatementCount(s) + 1) : Save(s, fail)
    \/ DeleteAll
    \/ \E p \in PlanetSamples : \E n \in {"A", "Z"} : RawInsertPlanet(p, n)
    \/ \E name \in QueryNames : FindByName(name)
    \/ FindAll
    \/ Count

SpecStore == Init /\ [][NextStore]_vars

(* SpecSchema: the repository on a database file that starts without       *)
(* tables.  CREATE ... IF NOT EXISTS does nothing for an object that is    *)
(* present; a table that is created starts empty.  The statements are DDL, *)
(* which sqlite3 runs outside a transaction, so they need no commit.       *)

(* CREATE TABLE without IF NOT EXISTS, preceded by DROP TABLE IF EXISTS.   *)
CreateTableReplacing(d, t) ==
    [d EXCEPT !.schema = @ \cup {t}, !.store = [@ EXCEPT ![t] = EmptyBag]]

CreateTable(d, t) ==
    IF t \in d.schema THEN d
    ELSE [d EXCEPT !.schema = @ \cup {t}, !.store = [@ EXCEPT ![t] = EmptyBag]]

CreateIndex(d, i, t) ==
    IF i \in d.schema THEN d
    ELSE IF t \in d.schema THEN [d EXCEPT !.schema = @ \cup {i}]
    ELSE [d EXCEPT !.raised = TRUE]

initialize_schema(st, sch) ==
    CreateIndex(
        CreateIndex(
            CreateTable(
                CreateTable([store |-> st, schema |-> sch, raised |-> FALSE],
                            "star_systems"),
                "planets"),
            "idx_distance", "star_systems"),
        "idx_spectral_type", "star_systems")

(* last.again: the call before was initialize_schema too.                  *)
InitializeSchema ==
    LET d == initialize_schema(db, schema)
    IN  /\ Quiet
        /\ db' = d.store
        /\ schema' = d.schema
        /\ last' = [Call("initialize_schema", "", d.raised, NoRet, NoSystem)
                        EXCEPT !.existed = schema # {},
                               !.again = last.op = "initialize_schema"]
        /\ Scoped(1, IF d.raised THEN "raise" ELSE "return")
        /\ UNCHANGED <<applied, saved>>
        /\ UNCHANGED stepVars

HasTables == {"star_systems", "planets"} \subseteq schema

InitFresh == Fresh /\ schema = {}

NextSchema ==
    \/ InitializeSchema
    \/ HasTables /\ \E s \in BatchSystems : \E fail \in 0..(StatementCount(s) + 1) : Save(s, fail)
    \/ HasTables /\ DeleteAll
    \/ HasTables /\ \E p \in PlanetSamples : \E n \in {"A", "Z"} : RawInsertPlanet(p, n)
    \/ HasTables /\ Count

SpecSchema == InitFresh /\ [][NextSchema]_vars

-----------------------------------------------------------------------------
(* Planet.classify.  Masses and radii are counted in twentieths of an      *)
(* Earth mass or radius, so that 0.1, 1.5, 2 and 10 and the values next to *)
(* them are integers: x < 0.1 is x * 10 < Unit, x < 1.5 is x * 10 < 15 *   *)
(* Unit.                                                                   *)

Unit == 20

MaxMass == 201

MaxRadius == 31

Masses == (0 - 2)..MaxMass

(* A negative radius, 0, 1.0, and the radii from just below 1.5 on.         *)
Radii == {0 - 1, 0, Unit} \cup (((15 * Unit) \div 10) - 1)..MaxRadius

Classes == {"Dwarf Planet", "Terrestrial", "Super-Earth", "Gas Giant"}

Planet(name, mass, radius, orbit_distance) ==
    [name |-> name, mass |-> mass, radius |-> radius, orbit_distance |-> orbit_distance]

(* The Terrestrial rule tried before the Dwarf Planet rule.                *)
classifyTerrestrialFirst(planet) ==
    IF planet.mass < 2 * Unit /\ planet.radius * 10 < 15 * Unit THEN "Terrestrial"
    ELSE IF planet.mass * 10 < Unit THEN "Dwarf Planet"
    ELSE IF planet.mass < 10 * Unit THEN "Super-Earth"
    ELSE "Gas Giant"

(* The first comparison as mass <= 0.1.                                    *)
classifyDwarfInclusive(planet) ==
    IF planet.mass * 10 <= Unit THEN "Dwarf Planet"
    ELSE IF planet.mass < 2 * Unit /\ planet.radius * 10 < 15 * Unit THEN "Terrestrial"
    ELSE IF planet.mass < 10 * Unit THEN "Super-Earth"
    ELSE "Gas Giant"

(* The later comparisons as mass <= 2, radius <= 1.5 and mass <= 10.       *)
classifyInclusive(planet) ==
    IF planet.mass * 10 < Unit THEN "Dwarf Planet"
    ELSE IF planet.mass <= 2 * Unit /\ planet.radius * 10 <= 15 * Unit THEN "Terrestrial"
    ELSE IF planet.mass <= 10 * Unit THEN "Super-Earth"
    ELSE "Gas Giant"

classify(planet) ==
    IF planet.mass * 10 < Unit THEN "Dwarf Planet"
    ELSE IF planet.mass < 2 * Unit /\ planet.radius * 10 < 15 * Unit THEN "Terrestrial"
    ELSE IF planet.mass < 10 * Unit THEN "Super-Earth"
    ELSE "Gas Giant"

Classify(planet) ==
    /\ last' = Call("classify", planet.name, FALSE,
                    [kind |-> "class", planet |-> planet, value |-> classify(planet)],
                    NoSystem)
    /\ UNCHANGED <<db, applied, saved, conns, schema>>
    /\ UNCHANGED stepVars

NextClassify ==
    \E mass \in Masses : \E radius \in Radii : Classify(Planet("p", mass, radius, Unit))

SpecClassify == Init /\ [][NextClassify]_vars

-----------------------------------------------------------------------------
(* SearchService.  A spectral type is kept here as the sequence of its     *)
(* characters, so that its first character and upper() are what they are   *)
(* in the code.  An optional argument is NoArg (None) or Some(v).          *)

MaxList == 2

NoArg == [some |-> FALSE]

Some(v) == [some |-> TRUE, v |-> v]

Upper(ch) ==
    CASE ch = "g" -> "G"
      [] ch = "k" -> "K"
      [] ch = "m" -> "M"
      [] ch = "u" -> "U"
      [] ch = "n" -> "N"
      [] ch = "o" -> "O"
      [] ch = "w" -> "W"
      [] ch = "v" -> "V"
      [] OTHER -> ch

upper(str) == [i \in 1..Len(str) |-> Upper(str[i])]

Unknown == <<"U", "n", "k", "n", "o", "w", "n">>

SearchSamples ==
    { System("S1", << <<"G", "2", "V">>, 10 >>, <<PlanetB1>>),
      System("S2", << <<"k", "5">>, 20 >>, <<PlanetB1, PlanetB1>>),
      System("S3", << <<"M", "5", "V">>, 0 >>, <<>>),
      System("S4", << Unknown, 10 >>, <<>>),
      System("S5", << <<>>, 20 >>, <<PlanetB1>>),
      System("S6", << <<"U", "5">>, 0 - 5 >>, <<>>) }

SystemLists == UNION { [1..n -> SearchSamples] : n \in 0..MaxList }

MaxDistances == {NoArg, Some(0), Some(10), Some(999999)}

SpectralTypeLists ==
    {NoArg, Some(<<>>), Some(<< <<"g">>, <<"K">> >>), Some(<< <<"U">> >>),
     Some(<< <<"G", "2">> >>)}

HasPlanetsArgs == {NoArg, Some(TRUE), Some(FALSE)}

MinPlanetsArgs == {NoArg, Some(0), Some(2)}

has_planet(s) == Len(s.planets) > 0

planet_count(s) == Len(s.planets)

(* The comparison as distance_ly <= max_distance alone.                    *)
filter_by_distanceWithZero(systems, max_distance) ==
    SelectSeq(systems, LAMBDA s : s.distance_ly <= max_distance)

filter_by_distance(systems, max_distance) ==
    SelectSeq(systems, LAMBDA s : 0 < s.distance_ly /\ s.distance_ly <= max_distance)

(* The comparison without upper() on either side.                          *)
filter_by_spectral_typeCaseSensitive(systems, spectral_types) ==
    LET given_types == { spectral_types[i] : i \in 1..Len(spectral_types) }
    IN  SelectSeq(systems,
                  LAMBDA s : /\ s.spectral_type # <<>>
                             /\ s.spectral_type # Unknown
                             /\ <<s.spectral_type[1]>> \in given_types)

filter_by_spectral_type(systems, spectral_types) ==
    LET normalized_types == { upper(spectral_types[i]) : i \in 1..Len(spectral_types) }
    IN  SelectSeq(systems,
                  LAMBDA s : /\ s.spectral_type # <<>>
                             /\ s.spectral_type # Unknown
                             /\ upper(<<s.spectral_type[1]>>) \in normalized_types)

filter_by_has_planets(systems, has_planets) ==
    IF has_planets THEN SelectSeq(systems, LAMBDA s : has_planet(s))
    ELSE SelectSeq(systems, LAMBDA s : ~has_planet(s))

filter_by_min_planets(systems, min_planets) ==
    SelectSeq(systems, LAMBDA s : planet_count(s) >= min_planets)

(* The local names of filter_systems: systems is the list the caller       *)
(* passed, results starts as the same list and is bound to the new list    *)
(* that each pass returns.                                                 *)
Frame(systems) == [systems |-> systems, results |-> systems]

(* A pass that writes its outcome into the list it was given.              *)
RebindInPlace(frame, value) == [systems |-> value, results |-> value]

Rebind(frame, value) == [frame EXCEPT !.results = value]

(* Every pass taken over the input list instead of the previous outcome.   *)
FilterFrameFromInput(systems, max_distance, spectral_types, has_planets, min_planets) ==
    LET g0 == Frame(systems)
        g1 == IF max_distance.some
              THEN Rebind(g0, filter_by_distance(g0.systems, max_distance.v)) ELSE g0
        g2 == IF spectral_types.some /\ spectral_types.v # <<>>
              THEN Rebind(g1, filter_by_spectral_type(g1.systems, spectral_types.v))
              ELSE g1
        g3 == IF has_planets.some
              THEN Rebind(g2, filter_by_has_planets(g2.systems, has_planets.v)) ELSE g2
    IN  IF min_planets.some
        THEN Rebind(g3, filter_by_min_planets(g3.systems, min_planets.v)) ELSE g3

FilterFrame(systems, max_distance, spectral_types, has_planets, min_planets) ==
    LET f0 == Frame(systems)
        f1 == IF max_distance.some
              THEN Rebind(f0, filter_by_distance(f0.results, max_distance.v)) ELSE f0
        f2 == IF spectral_types.some /\ spectral_types.v # <<>>
              THEN Rebind(f1, filter_by_spectral_type(f1.results, spectral_types.v))
              ELSE f1
        f3 == IF has_planets.some
              THEN Rebind(f2, filter_by_has_planets(f2.results, has_planets.v)) ELSE f2
    IN  IF min_planets.some
        THEN Rebind(f3, filter_by_min_planets(f3.results, min_planets.v)) ELSE f3

filter_systems(systems, max_distance, spectral_types, has_planets, min_planets) ==
    FilterFrame(systems, max_distance, spectral_types, has_planets, min_planets).results

(* The arguments of a call of filter_systems that is about to be made.     *)
FilterArgs ==
    [kind : {"args"}, systems : SystemLists, max_distance : MaxDistances,
     spectral_types : SpectralTypeLists, has_planets : HasPlanetsArgs,
     min_planets : MinPlanetsArgs]

(* last.ret keeps the arguments with the result, and after is the list    *)
(* that was passed as it is when the call has returned.                    *)
FilterSystems ==
    /\ last.op = "pending"
    /\ last.ret.kind = "args"
    /\ last' = Call("filter_systems", "", FALSE,
                    [kind |-> "filtered", args |-> last.ret,
                     result |-> filter_systems(last.ret.systems, last.ret.max_distance,
                                               last.ret.spectral_types,
                                               last.ret.has_planets,
                                               last.ret.min_planets),
                     after |-> FilterFrame(last.ret.systems, last.ret.max_distance,
                                           last.ret.spectral_types,
                                           last.ret.has_planets,
                                           last.ret.min_planets).systems],
                    NoSystem)
    /\ UNCHANGED <<db, applied, saved, conns, schema>>
    /\ UNCHANGED stepVars

(* A name is kept as the sequence of its characters wherever it is         *)
(* searched.                                                               *)
Lower(ch) ==
    CASE ch = "K" -> "k"
      [] ch = "E" -> "e"
      [] ch = "P" -> "p"
      [] ch = "L" -> "l"
      [] ch = "R" -> "r"
      [] ch = "T" -> "t"
      [] ch = "A" -> "a"
      [] ch = "I" -> "i"
      [] ch = "S" -> "s"
      [] OTHER -> ch

lower(str) == [i \in 1..Len(str) |-> Lower(str[i])]

Kepler186 == <<"K", "e", "p", "l", "e", "r", "-", "1", "8", "6">>

KEPLER452 == <<"K", "E", "P", "L", "E", "R", "-", "4", "5", "2">>

TRAPPIST1 == <<"T", "R", "A", "P", "P", "I", "S", "T", "-", "1">>

NamedSamples ==
    { System(Kepler186, << <<"G", "2", "V">>, 10 >>, <<PlanetB1>>),
      System(KEPLER452, << <<"G", "2", "V">>, 20 >>, <<>>),
      System(TRAPPIST1, << <<"M", "5", "V">>, 0 >>, <<>>),
      System(<<"k", "e", "p">>, << Unknown, 10 >>, <<>>) }

NamedLists == UNION { [1..n -> NamedSamples] : n \in 0..MaxList }

Queries ==
    { <<"k", "e", "p", "l", "e", "r">>, <<"K", "E", "P", "L", "E", "R">>,
      <<"P", "i", "s", "t">>, <<"-", "1">>, <<"x">>, <<>> }

(* sub in str, for strings.                                                *)
Contains(sub, str) ==
    \E k \in 0..(Len(str) - Len(sub)) : SubSeq(str, k + 1, k + Len(sub)) = sub

(* The name compared as it is written.                                     *)
search_by_nameCaseSensitive(systems, query) ==
    LET query_lowered == lower(query)
    IN  SelectSeq(systems, LAMBDA s : Contains(query_lowered, s.name))

search_by_name(systems, query) ==
    LET query_lower == lower(query)
    IN  SelectSeq(systems, LAMBDA s : Contains(query_lower, lower(s.name)))

SearchArgs == [kind : {"search_args"}, systems : NamedLists, query : Queries]

(* search_by_name binds no name to the list it is given and calls only     *)
(* lower() on the names: the list is afterwards as it was passed.          *)
SearchByName ==
    /\ last.op = "pending"
    /\ last.ret.kind = "search_args"
    /\ last' = Call("search_by_name", "", FALSE,
                    [kind |-> "found", args |-> last.ret,
                     result |-> search_by_name(last.ret.systems, last.ret.query),
                     after |-> last.ret.systems],
                    NoSystem)
    /\ UNCHANGED <<db, applied, saved, conns, schema>>
    /\ UNCHANGED stepVars

(* get_statistics.  An average is kept in hundredths, which is what        *)
(* round(x, 2) leaves of it.                                               *)
MaxStatsList == 3

StatsSamples ==
    { System("A", << <<"G", "2", "V">>, 10 >>, <<PlanetB1>>),
      System("B", << <<"K", "5", "V">>, 20 >>,
             <<PlanetB1, [name |-> "c", mass |-> 0, radius |-> 0, orbit_distance |-> 0]>>),
      System("C", << <<"M", "5", "V">>, 0 >>, <<>>),
      System("S2", << <<"k", "5">>, 20 >>, <<PlanetB1>>),
      System("S4", << Unknown, 10 >>, <<>>),
      System("S5", << <<>>, 25 >>, <<PlanetB1>>),
      System("S6", << <<"U", "5">>, 0 - 5 >>, <<>>) }

StatsLists == UNION { [1..n -> StatsSamples] : n \in 0..MaxStatsList }

RECURSIVE SumSeq(_)
SumSeq(q) == IF q = <<>> THEN 0 ELSE Head(q) + SumSeq(Tail(q))

(* round(num / den, 2) in hundredths, for num >= 0 and den > 0; a quotient *)
(* half way between two hundredths goes to the even one.                   *)
Round2(num, den) ==
    LET q == (100 * num) \div den
        r == (100 * num) % den
    IN  IF 2 * r > den THEN q + 1
        ELSE IF 2 * r < den THEN q
        ELSE IF q % 2 = 0 THEN q ELSE q + 1

(* The spectral-type letters counted whatever the spectral_type is.        *)
spectral_distAll(systems) ==
    LET typed == SelectSeq(systems, LAMBDA s : s.spectral_type # <<>>)
        letters == { Upper(typed[i].spectral_type[1]) : i \in 1..Len(typed) }
    IN  [l \in letters |->
            Cardinality({ i \in 1..Len(typed) : Upper(typed[i].spectral_type[1]) = l })]

spectral_dist(systems) ==
    LET counted == SelectSeq(systems,
                             LAMBDA s : s.spectral_type # <<>> /\ s.spectral_type # Unknown)
        first_chars == { Upper(counted[i].spectral_type[1]) : i \in 1..Len(counted) }
    IN  [first_char \in first_chars |->
            Cardinality({ i \in 1..Len(counted) :
                            Upper(counted[i].spectral_type[1]) = first_char })]

(* The average taken over every distance_ly, those of 0 or less included.  *)
get_statisticsAllDistances(systems) ==
    IF systems = <<>>
    THEN [total_systems |-> 0,
          systems_with_planets |-> 0,
          total_planets |-> 0,
          avg_distance |-> 0,
          spectral_type_distribution |-> <<>>]
    ELSE LET all_planets == SumSeq([i \in 1..Len(systems) |-> planet_count(systems[i])])
             with_planets == Len(SelectSeq(systems, has_planet))
             any_distance == systems
             distances == [i \in 1..Len(any_distance) |-> any_distance[i].distance_ly]
             mean_distance == IF distances # <<>>
                             THEN Round2(SumSeq(distances), Len(distances))
                             ELSE 0
         IN  [total_systems |-> Len(systems),
              systems_with_planets |-> with_planets,
              total_planets |-> all_planets,
              avg_distance |-> mean_distance,
              avg_planets_per_system |-> Round2(all_planets, Len(systems)),
              spectral_type_distribution |-> spectral_dist(systems)]

get_statistics(systems) ==
    IF systems = <<>>
    THEN [total_systems |-> 0,
          systems_with_planets |-> 0,
          total_planets |-> 0,
          avg_distance |-> 0,
          spectral_type_distribution |-> <<>>]
    ELSE LET total_planets == SumSeq([i \in 1..Len(systems) |-> planet_count(systems[i])])
             systems_with_planets == Len(SelectSeq(systems, has_planet))
             with_distance == SelectSeq(systems, LAMBDA s : s.distance_ly > 0)
             valid_distances == [i \in 1..Len(with_distance) |-> with_distance[i].distance_ly]
             avg_distance == IF valid_distances # <<>>
                             THEN Round2(SumSeq(valid_distances), Len(valid_distances))
                             ELSE 0
         IN  [total_systems |-> Len(systems),
              systems_with_planets |-> systems_with_planets,
              total_planets |-> total_planets,
              avg_distance |-> avg_distance,
              avg_planets_per_system |-> Round2(total_planets, Len(systems)),
              spectral_type_distribution |-> spectral_dist(systems)]

StatsArgs == [kind : {"stats_args"}, systems : StatsLists]

(* get_statistics only reads the list and the systems it is given.         *)
GetStatistics ==
    /\ last.op = "pending"
    /\ last.ret.kind = "stats_args"
    /\ last' = Call("get_statistics", "", FALSE,
                    [kind |-> "statistics", args |-> last.ret,
                     result |-> get_statistics(last.ret.systems),
                     after |-> last.ret.systems],
                    NoSystem)
    /\ UNCHANGED <<db, applied, saved, conns, schema>>
    /\ UNCHANGED stepVars

(* A call of one of the three functions is about to be made.               *)
InitSearch ==
    /\ db = EmptyStore
    /\ schema = SchemaObjects
    /\ NoCall
    /\ last \in { Call("pending", "", FALSE, a, NoSystem) :
                     a \in FilterArgs \cup SearchArgs \cup StatsArgs }

NextSearch == FilterSystems \/ SearchByName \/ GetStatistics

SpecSearch == InitSearch /\ [][NextSearch]_vars

-----------------------------------------------------------------------------
(* Properties of save and find_by_name *)

BagOfSeq(q) ==
    [x \in {q[i] : i \in 1..Len(q)} |-> Cardinality({i \in 1..Len(q) : q[i] = x})]

PlanetNames(planets) == { planets[i].name : i \in 1..Len(planets) }

LastNamed(planets, n) ==
    planets[CHOOSE i \in 1..Len(planets) :
              /\ planets[i].name = n
              /\ \A j \in (i + 1)..Len(planets) : planets[j].name # n]

SaveReturned == last.op = "save" /\ ~last.raised

(* C1 as stated: after save(system), find_by_name(system.name) returns a   *)
(* system with the same spectral_type and distance_ly whose planets, as a  *)
(* multiset, include every planet just saved.                              *)
C1_SaveThenFindIdentical ==
    SaveReturned =>
        LET found == find_by_name(db, last.arg.name)
        IN  /\ found.kind = "system"
            /\ found.system.spectral_type = last.arg.spectral_type
            /\ found.system.distance_ly = last.arg.distance_ly
            /\ BagOfSeq(last.arg.planets) \sqsubseteq BagOfSeq(found.system.planets)

(* C1 amended: after save(system), find_by_name(system.name) returns a     *)
(* system of that name with the same distance_ly; its spectral_type is the *)
(* saved one, except that an empty spectral_type is read back as           *)
(* "Unknown"; for every planet name in system.planets it holds exactly one *)
(* planet of that name, equal to the last planet saved under that name, so *)
(* when the saved planets have pairwise distinct names the planets found   *)
(* include every planet just saved.                                        *)
C1_SaveThenFind ==
    SaveReturned =>
        LET s == last.arg
            found == find_by_name(db, s.name)
            got == found.system.planets
        IN  /\ found.kind = "system"
            /\ found.system.name = s.name
            /\ found.system.distance_ly = s.distance_ly
            /\ found.system.spectral_type =
                 IF s.spectral_type = "" THEN "Unknown" ELSE s.spectral_type
            /\ \A n \in PlanetNames(s.planets) :
                 /\ Cardinality({i \in 1..Len(got) : got[i].name = n}) = 1
                 /\ \E i \in 1..Len(got) : got[i] = LastNamed(s.planets, n)
            /\ Cardinality(PlanetNames(s.planets)) = Len(s.planets)
                 => BagOfSeq(s.planets) \sqsubseteq BagOfSeq(got)

(* A save of two planets of one name, into a system that already had a     *)
(* planet the save does not mention, with an empty spectral_type.          *)
C1_Witness ==
    /\ SaveReturned
    /\ Len(last.arg.planets) = 2
    /\ Cardinality(PlanetNames(last.arg.planets)) = 1
    /\ last.arg.planets[1] # last.arg.planets[2]
    /\ last.arg.spectral_type = ""
    /\ Len(find_by_name(db, last.name).system.planets) = 2

(* C2: a save that repeats the save before it, with the same system,       *)
(* leaves the store as it was, with one system row of that name and one    *)
(* planet row for each planet name of the system.                          *)
C2_SaveIdempotent ==
    [][ last'.again =>
          /\ db' = db
          /\ BagCardinality(BagWhere(db'.star_systems,
                                     LAMBDA r : r.name = last'.name)) = 1
          /\ \A n \in PlanetNames(last'.arg.planets) :
               BagCardinality(BagWhere(db'.planets,
                   LAMBDA r : r.name = n /\ r.system_name = last'.name)) = 1
          /\ LET got == find_by_name(db', last'.name).system.planets
             IN  \A i, j \in 1..Len(got) : got[i].name = got[j].name => i = j ]_vars

C2_Witness ==
    /\ last.op = "save"
    /\ last.again
    /\ Len(last.arg.planets) = 2
    /\ Cardinality(PlanetNames(last.arg.planets)) = 2

(* C3: no step other than delete_all removes a system name or a            *)
(* (planet name, system name) key from the store.                          *)
C3_NeverPrunes ==
    [][ last'.op # "delete_all" =>
          /\ StoredNames(db) \subseteq StoredNames(db')
          /\ PlanetKeys(db) \subseteq PlanetKeys(db') ]_vars

(* A save of an already stored system whose planet list leaves out a       *)
(* planet that is stored for it.                                           *)
C3_Witness ==
    /\ SaveReturned
    /\ last.existed
    /\ \E k \in PlanetKeys(db) :
         k[2] = last.name /\ k[1] \notin PlanetNames(last.arg.planets)

(* C4: the store never holds two system rows of one name nor two planet    *)
(* rows of one (planet name, system name); a save of a stored name leaves  *)
(* the number of system rows unchanged and sets that row to the saved      *)
(* spectral_type and distance_ly.                                          *)
UniqueKeys(st) ==
    /\ \A r \in BagToSet(st.star_systems) :
         BagCardinality(BagWhere(st.star_systems, LAMBDA x : x.name = r.name)) = 1
    /\ \A r \in BagToSet(st.planets) :
         BagCardinality(BagWhere(st.planets,
             LAMBDA x : x.name = r.name /\ x.system_name = r.system_name)) = 1

C4_UniqueKeysAndUpdate ==
    /\ [](UniqueKeys(db) /\ \A c \in Callers : UniqueKeys(View(c)))
    /\ [][ (last'.op = "save" /\ ~last'.raised /\ last'.name \in StoredNames(db)) =>
             /\ count(db') = count(db)
             /\ SystemRow(last'.arg) \in BagToSet(db'.star_systems) ]_vars

(* A save of a stored name that changes both columns of its row.           *)
C4_Witness ==
    /\ SaveReturned
    /\ last.existed
    /\ count(db) = 2
    /\ last.arg.spectral_type = "K5V"
    /\ last.arg.distance_ly = 20

-----------------------------------------------------------------------------
(* Properties of save_batch *)

BatchReturned == last.op = "save_batch" /\ ~last.raised

FoundNames(st) == LET all == find_all(st) IN { all[i].name : i \in 1..Len(all) }

(* C5 as stated: when save_batch has been given N systems of which K met   *)
(* a storage error, it returns (N - K, K), and find_all afterwards holds   *)
(* every system that met none.                                             *)
C5_BatchCounts ==
    BatchReturned =>
        /\ last.ret.success = last.ret.given - last.ret.errs
        /\ last.ret.failed = last.ret.errs
        /\ last.ret.okNames \subseteq FoundNames(db)

(* C6 as stated: save_batch returns a (success, failed) pair whose sum is  *)
(* the number of systems it was given.                                     *)
C6_BatchSum ==
    BatchReturned => last.ret.success + last.ret.failed = last.ret.given

(* C7: an iteration that brings the success count to a multiple of 50      *)
(* commits: unless that commit raises, the write lock is free after it and *)
(* every system saved so far without an error is stored; no later step of  *)
(* the batch, a raise out of it included, removes a committed system or    *)
(* planet; when save_batch returns, every system it wrote or counted is    *)
(* stored.                                                                 *)
C7_IncrementalCommit ==
    [][ \A c \in Callers :
          /\ ( /\ pc[c] = "batch"
               /\ success_count'[c] = success_count[c] + 1
               /\ success_count'[c] % CommitEvery = 0
               /\ errs'[c] = errs[c] )
             => /\ lock' = 0
                /\ okNames'[c] \subseteq StoredNames(db')
          /\ pc[c] = "batch"
             => /\ StoredNames(db) \subseteq StoredNames(db')
                /\ PlanetKeys(db) \subseteq PlanetKeys(db')
          /\ (pc[c] = "batch" /\ last'.op = "save_batch" /\ ~last'.raised)
             => /\ writes[c] \subseteq StoredNames(db')
                /\ last'.ret.okNames \subseteq StoredNames(db') ]_vars

(* A batch that raised after its 50th success: what was committed by then  *)
(* is stored, what it saved afterwards is not.                             *)
C7_Witness ==
    /\ last.op = "save_batch"
    /\ last.raised
    /\ last.ret.success > CommitEvery
    /\ last.ret.okNames = {"A", "B"}
    /\ StoredNames(db) = {"A"}

-----------------------------------------------------------------------------
(* Properties of concurrent writers *)

(* C8: a name whose upsert some caller has committed has exactly one row   *)
(* in the store, and that row's spectral_type and distance_ly are both     *)
(* those written by the caller whose upsert of the name was committed      *)
(* last.                                                                   *)
C8_LastWriterWins ==
    \A n \in Names :
        applied[n] # 0 =>
            LET rows == BagWhere(db.star_systems, LAMBDA r : r.name = n)
            IN  /\ BagCardinality(rows) = 1
                /\ \A r \in BagToSet(rows) :
                     /\ r.spectral_type = HeaderOf(applied[n])[1]
                     /\ r.distance_ly = HeaderOf(applied[n])[2]

(* Caller 2's upsert of "A" is committed while caller 1 holds the write    *)
(* lock with its own upsert of "A" not yet committed.                      *)
C8_Witness ==
    /\ applied["A"] = 2
    /\ lock = 1
    /\ "A" \in writes[1]
    /\ "A" \in StoredNames(txn[1])

-----------------------------------------------------------------------------
(* Properties of find_all and find_by_name *)

PlanetRowsOf(st, n) == { r \in BagToSet(st.planets) : r.system_name = n }

SeqToSet(q) == { q[i] : i \in 1..Len(q) }

(* C9: find_all returns one system per system row, with the row's name;    *)
(* the planets of each are, once each, the planet rows whose system_name   *)
(* is that name, so a planet row whose system_name is no stored name is in *)
(* no system of the result; the call does not raise.                       *)
C9_FindAllAttaches ==
    last.op = "find_all" =>
        LET res == last.ret.systems
        IN  /\ ~last.raised
            /\ Len(res) = BagCardinality(db.star_systems)
            /\ \A r \in BagToSet(db.star_systems) :
                 Cardinality({i \in 1..Len(res) : res[i].name = r.name}) = 1
            /\ \A i \in 1..Len(res) :
                 /\ res[i].name \in StoredNames(db)
                 /\ SeqToSet(res[i].planets) =
                      { PlanetOf(r) : r \in PlanetRowsOf(db, res[i].name) }
                 /\ Len(res[i].planets) = Cardinality(PlanetRowsOf(db, res[i].name))

(* find_all over two systems that each have a planet named "b", with a     *)
(* planet row in the store whose system_name is no stored name.            *)
C9_Witness ==
    /\ last.op = "find_all"
    /\ Len(last.ret.systems) = 2
    /\ \A i \in 1..2 : "b" \in PlanetNames(last.ret.systems[i].planets)
    /\ \E i \in 1..2 : Len(last.ret.systems[i].planets) = 2
    /\ \E r \in BagToSet(db.planets) : r.system_name \notin StoredNames(db)

(* C10: find_by_name does not raise and leaves the store as it was; it     *)
(* returns None exactly when no system row has the name; otherwise it      *)
(* returns the system of that name whose planets are, once each, the       *)
(* planet rows whose system_name is the name.                              *)
C10_FindByName ==
    /\ [](last.op = "find_by_name" =>
            /\ ~last.raised
            /\ last.ret = Absent <=> last.name \notin StoredNames(db)
            /\ last.ret # Absent =>
                 /\ last.ret.system.name = last.name
                 /\ SeqToSet(last.ret.system.planets) =
                      { PlanetOf(r) : r \in PlanetRowsOf(db, last.name) }
                 /\ Len(last.ret.system.planets) =
                      Cardinality(PlanetRowsOf(db, last.name)))
    /\ [][ last'.op = "find_by_name" => db' = db ]_vars

(* find_by_name finds a system with two planets while the store also holds *)
(* planet rows of other system names.                                      *)
C10_Witness ==
    /\ last.op = "find_by_name"
    /\ last.ret # Absent
    /\ Len(last.ret.system.planets) = 2
    /\ \E r \in BagToSet(db.planets) : r.system_name # last.name

-----------------------------------------------------------------------------
(* Properties of count and delete_all *)

(* C11 as stated: whenever no call is in progress, count() is the number   *)
(* of system rows, the length of find_all() and the number of distinct     *)
(* names saved successfully since the last delete_all.                     *)
C11_CountMatchesSaved ==
    Quiet =>
        /\ count(db) = BagCardinality(db.star_systems)
        /\ count(db) = Len(find_all(db))
        /\ count(db) = Cardinality(saved)

(* C12: after delete_all has returned, the committed store has no system   *)
(* row and no planet row, count() is 0 and find_all() is the empty list.   *)
C12_DeleteAllEmpties ==
    last.op = "delete_all" =>
        /\ ~last.raised
        /\ db.star_systems = EmptyBag
        /\ db.planets = EmptyBag
        /\ count(db) = 0
        /\ find_all(db) = <<>>

(* delete_all of a store that held a system and a planet row whose         *)
(* system_name was no stored name.                                         *)
C12_Witness ==
    /\ last.op = "delete_all"
    /\ last.ret.systems >= 1
    /\ last.ret.orphans >= 1

-----------------------------------------------------------------------------
(* Properties of the schema and of connections *)

(* C13: a call of initialize_schema, the first or a later one, on an empty *)
(* or on a populated store, does not raise, leaves both tables and both    *)
(* indexes present and leaves every system row and planet row as it was.   *)
C13_InitializeSchemaIdempotent ==
    [][ last'.op = "initialize_schema" =>
          /\ ~last'.raised
          /\ schema' = SchemaObjects
          /\ db' = db
          /\ last'.existed => schema' = schema ]_vars

(* initialize_schema called twice in a row on a store that holds a system  *)
(* row and planet rows.                                                    *)
C13_Witness ==
    /\ last.op = "initialize_schema"
    /\ last.again
    /\ last.existed
    /\ count(db) >= 1
    /\ BagCardinality(db.planets) >= 2

(* C14: a caller has one connection open while a call of it is in          *)
(* progress and none otherwise, whichever way the call ended: so no        *)
(* connection is open when no call is in progress.                         *)
C14_ConnectionsReleased ==
    /\ \A c \in Callers : conns[c] = IF pc[c] = "idle" THEN 0 ELSE 1
    /\ Quiet => \A c \in Callers : conns[c] = 0

(* save has raised on a store that holds rows, and no call is in progress. *)
C14_Witness ==
    /\ last.op = "save"
    /\ last.raised
    /\ Quiet
    /\ StoredNames(db) # {}

(* C15 as stated: the engine enforces the foreign key of planets, so the   *)
(* store never holds a planet row whose system_name is not the name of a   *)
(* system row.                                                             *)
C15_ForeignKeysEnforced ==
    \A r \in BagToSet(db.planets) : r.system_name \in StoredNames(db)

-----------------------------------------------------------------------------
(* Properties of classify *)

Classified == last.op = "classify"

(* C16 as stated: a planet of mass <= 0.1 is classified Dwarf Planet.      *)
C16_DwarfUpToTenth ==
    (Classified /\ last.ret.planet.mass * 10 <= Unit) => last.ret.value = "Dwarf Planet"

(* C16 amended: classify does not fail, and a planet of mass < 0.1, zero   *)
(* and negative masses included, is classified Dwarf Planet whatever its   *)
(* radius.                                                                 *)
C16_DwarfBelowTenth ==
    Classified =>
        /\ ~last.raised
        /\ last.ret.planet.mass * 10 < Unit => last.ret.value = "Dwarf Planet"

(* A planet of negative mass and of radius above 1.5.                      *)
C16_Witness ==
    /\ Classified
    /\ last.ret.planet.mass < 0
    /\ last.ret.planet.radius * 10 > 15 * Unit
    /\ last.ret.value = "Dwarf Planet"

(* C17: a planet of mass exactly 0.1 and radius below 1.5 is classified    *)
(* Terrestrial; a planet of the next mass below 0.1 is classified Dwarf    *)
(* Planet.                                                                 *)
C17_TenthIsTerrestrial ==
    Classified =>
        /\ (last.ret.planet.mass * 10 = Unit /\ last.ret.planet.radius * 10 < 15 * Unit)
             => last.ret.value = "Terrestrial"
        /\ (last.ret.planet.mass + 1) * 10 = Unit => last.ret.value = "Dwarf Planet"

(* The planet of mass 0.1 and radius 1.0.                                  *)
C17_Witness ==
    /\ Classified
    /\ last.ret.planet.mass * 10 = Unit
    /\ last.ret.planet.radius = Unit
    /\ last.ret.value = "Terrestrial"

(* C18: classify gives every planet one of the four classes; a planet not  *)
(* classified Dwarf Planet is Terrestrial exactly when mass < 2 and        *)
(* radius < 1.5, otherwise Super-Earth exactly when mass < 10, otherwise   *)
(* Gas Giant.                                                              *)
C18_RulesInOrder ==
    Classified =>
        LET mass == last.ret.planet.mass
            radius == last.ret.planet.radius
            small == mass < 2 * Unit /\ radius * 10 < 15 * Unit
        IN  /\ ~last.raised
            /\ last.ret.value \in Classes
            /\ last.ret.value # "Dwarf Planet" =>
                 /\ last.ret.value = "Terrestrial" <=> small
                 /\ last.ret.value = "Super-Earth" <=> (~small /\ mass < 10 * Unit)
                 /\ last.ret.value = "Gas Giant" <=> (~small /\ mass >= 10 * Unit)

(* The planet of mass exactly 2 and radius 1.0, a Super-Earth.             *)
C18_Witness ==
    /\ Classified
    /\ last.ret.planet.mass = 2 * Unit
    /\ last.ret.planet.radius = Unit
    /\ last.ret.value = "Super-Earth"

-----------------------------------------------------------------------------
(* Properties of filter_systems *)

Filtered == last.op = "filter_systems"

NoSpectralTypes(a) == ~a.spectral_types.some \/ a.spectral_types.v = <<>>

(* C19: with max_distance supplied, every system of the result has         *)
(* 0 < distance_ly <= max_distance, so none has distance_ly = 0; with no   *)
(* other criterion supplied the result has exactly the systems of the      *)
(* input of such a distance, as often as the input has them.               *)
C19_DistanceFilter ==
    (Filtered /\ last.ret.args.max_distance.some) =>
        LET a == last.ret.args
            result == last.ret.result
            near(s) == 0 < s.distance_ly /\ s.distance_ly <= a.max_distance.v
        IN  /\ \A i \in 1..Len(result) : near(result[i]) /\ result[i].distance_ly # 0
            /\ (NoSpectralTypes(a) /\ ~a.has_planets.some /\ ~a.min_planets.some)
                 => BagOfSeq(result) = BagWhere(BagOfSeq(a.systems), near)

(* max_distance = 999999 alone, over a list that has a system of distance  *)
(* 0 and a system that is kept.                                            *)
C19_Witness ==
    /\ Filtered
    /\ last.ret.args.max_distance = Some(999999)
    /\ NoSpectralTypes(last.ret.args)
    /\ ~last.ret.args.has_planets.some
    /\ ~last.ret.args.min_planets.some
    /\ \E i \in 1..Len(last.ret.args.systems) : last.ret.args.systems[i].distance_ly = 0
    /\ Len(last.ret.result) = 1

(* C20: with a non-empty spectral_types list, every system of the result   *)
(* has a spectral_type that is not empty, is not "Unknown" and whose first *)
(* character is, upper and lower case taken as equal, one of the supplied  *)
(* types, and with no other criterion supplied the result has exactly the  *)
(* systems of the input of that kind; with an empty list and no other      *)
(* criterion the result is the input.                                      *)
C20_SpectralTypeFilter ==
    Filtered =>
        LET a == last.ret.args
            result == last.ret.result
            alone == ~a.max_distance.some /\ ~a.has_planets.some /\ ~a.min_planets.some
            matches(s) ==
                /\ s.spectral_type # <<>>
                /\ s.spectral_type # Unknown
                /\ \E i \in 1..Len(a.spectral_types.v) :
                     upper(a.spectral_types.v[i]) = upper(<<s.spectral_type[1]>>)
        IN  /\ (a.spectral_types.some /\ a.spectral_types.v # <<>>) =>
                 /\ \A i \in 1..Len(result) : matches(result[i])
                 /\ alone => BagOfSeq(result) = BagWhere(BagOfSeq(a.systems), matches)
            /\ (a.spectral_types = Some(<<>>) /\ alone) => result = a.systems

(* The types "g" and "K" alone, over a list with a system of type "k5",    *)
(* which is kept, and a system of type "Unknown", which is not.            *)
C20_Witness ==
    /\ Filtered
    /\ last.ret.args.spectral_types = Some(<< <<"g">>, <<"K">> >>)
    /\ ~last.ret.args.max_distance.some
    /\ \E i \in 1..Len(last.ret.args.systems) :
         last.ret.args.systems[i].spectral_type = Unknown
    /\ Len(last.ret.result) = 1
    /\ last.ret.result[1].spectral_type = <<"k", "5">>

(* C21: the result of filter_systems is the input list with exactly the    *)
(* systems, in input order, that meet every supplied criterion: distance,  *)
(* spectral type, has_planets equal to planet_count() > 0, and             *)
(* planet_count() >= min_planets.  It has the systems that each supplied   *)
(* criterion alone keeps, it is the same when the passes are taken in the  *)
(* opposite order, and with no criterion, or min_planets = 0 alone, it is  *)
(* the whole input.                                                        *)
C21_EveryCriterion ==
    Filtered =>
        LET a == last.ret.args
            result == last.ret.result
            typed == ~NoSpectralTypes(a)
            byDistance(s) ==
                a.max_distance.some =>
                    (0 < s.distance_ly /\ s.distance_ly <= a.max_distance.v)
            bySpectralType(s) ==
                typed =>
                    /\ s.spectral_type # <<>>
                    /\ s.spectral_type # Unknown
                    /\ \E i \in 1..Len(a.spectral_types.v) :
                         upper(a.spectral_types.v[i]) = upper(<<s.spectral_type[1]>>)
            byHasPlanets(s) ==
                a.has_planets.some => (a.has_planets.v <=> planet_count(s) > 0)
            byMinPlanets(s) ==
                a.min_planets.some => planet_count(s) >= a.min_planets.v
            every(s) == byDistance(s) /\ bySpectralType(s) /\ byHasPlanets(s) /\ byMinPlanets(s)
            onlyDistance == filter_systems(a.systems, a.max_distance, NoArg, NoArg, NoArg)
            onlySpectral == filter_systems(a.systems, NoArg, a.spectral_types, NoArg, NoArg)
            onlyHas == filter_systems(a.systems, NoArg, NoArg, a.has_planets, NoArg)
            onlyMin == filter_systems(a.systems, NoArg, NoArg, NoArg, a.min_planets)
            inEach(s) ==
                /\ s \in SeqToSet(onlyDistance)
                /\ s \in SeqToSet(onlySpectral)
                /\ s \in SeqToSet(onlyHas)
                /\ s \in SeqToSet(onlyMin)
            b1 == IF a.min_planets.some
                  THEN filter_by_min_planets(a.systems, a.min_planets.v) ELSE a.systems
            b2 == IF a.has_planets.some
                  THEN filter_by_has_planets(b1, a.has_planets.v) ELSE b1
            b3 == IF typed THEN filter_by_spectral_type(b2, a.spectral_types.v) ELSE b2
            backwards == IF a.max_distance.some
                         THEN filter_by_distance(b3, a.max_distance.v) ELSE b3
            none == ~a.max_distance.some /\ ~typed /\ ~a.has_planets.some
        IN  /\ result = SelectSeq(a.systems, every)
            /\ result = SelectSeq(a.systems, inEach)
            /\ result = backwards
            /\ (none /\ ~a.min_planets.some) => result = a.systems
            /\ (none /\ a.min_planets = Some(0)) => result = a.systems

(* All four criteria supplied over a list of two systems, one of which     *)
(* meets them all and one of which meets all but min_planets.              *)
C21_Witness ==
    /\ Filtered
    /\ last.ret.args.max_distance = Some(999999)
    /\ last.ret.args.spectral_types = Some(<< <<"g">>, <<"K">> >>)
    /\ last.ret.args.has_planets = Some(TRUE)
    /\ last.ret.args.min_planets = Some(2)
    /\ Len(last.ret.args.systems) = 2
    /\ last.ret.args.systems[1].spectral_type = <<"G", "2", "V">>
    /\ Len(last.ret.result) = 1
    /\ last.ret.result[1] = last.ret.args.systems[2]

-----------------------------------------------------------------------------
(* Properties of the three functions of SearchService together *)

Searched == last.op = "search_by_name"

Counted == last.op = "get_statistics"

-----------------------------------------------------------------------------
(* Properties of search_by_name *)

(* C23: the result of search_by_name is the input list with exactly the    *)
(* systems, in input order, whose name has the query as a substring when   *)
(* upper and lower case are taken as equal; the query "kepler" keeps       *)
(* "Kepler-186" and "KEPLER-452" and drops "TRAPPIST-1".                   *)
C23_SearchByName ==
    Searched =>
        LET query == last.ret.args.query
            result == last.ret.result
            sameAt(name, k) == \A i \in 1..Len(query) : Lower(name[k + i]) = Lower(query[i])
            within(s) == \E k \in 0..(Len(s.name) - Len(query)) : sameAt(s.name, k)
        IN  /\ result = SelectSeq(last.ret.args.systems, within)
            /\ query = <<"k", "e", "p", "l", "e", "r">> =>
                 result = SelectSeq(last.ret.args.systems,
                                    LAMBDA s : s.name \in {Kepler186, KEPLER452})

(* The query "kepler" over "TRAPPIST-1" and "KEPLER-452", in that order.   *)
C23_Witness ==
    /\ Searched
    /\ last.ret.args.query = <<"k", "e", "p", "l", "e", "r">>
    /\ Len(last.ret.args.systems) = 2
    /\ last.ret.args.systems[1].name = TRAPPIST1
    /\ Len(last.ret.result) = 1
    /\ last.ret.result[1].name = KEPLER452

-----------------------------------------------------------------------------
(* Properties of get_statistics *)

Aggregates ==
    {"total_systems", "systems_with_planets", "total_planets", "avg_distance",
     "avg_planets_per_system"}

(* C24: the result of get_statistics for the empty list has every          *)
(* aggregate that the result for a non-empty list has, total_systems,      *)
(* systems_with_planets, total_planets, avg_distance and                   *)
(* avg_planets_per_system, each of them zero, and an empty distribution.   *)
C24_EmptyStatistics ==
    (Counted /\ last.ret.args.systems = <<>>) =>
        /\ Aggregates \subseteq DOMAIN last.ret.result
        /\ \A k \in Aggregates \cap DOMAIN last.ret.result : last.ret.result[k] = 0
        /\ DOMAIN last.ret.result.spectral_type_distribution = {}

RECURSIVE SumOf(_)
SumOf(f) ==
    IF DOMAIN f = {} THEN 0
    ELSE LET x == CHOOSE y \in DOMAIN f : TRUE
         IN  f[x] + SumOf([y \in DOMAIN f \ {x} |-> f[y]])

(* C25: for a non-empty list total_systems is the number of systems,       *)
(* systems_with_planets the number of systems with at least one planet,    *)
(* total_planets the sum of the planet counts, and the distribution maps   *)
(* each upper-cased first letter of a spectral_type that is neither empty  *)
(* nor "Unknown" to the number of systems of that letter; so               *)
(* systems_with_planets <= total_systems and the counts of the             *)
(* distribution sum to at most total_systems.                              *)
C25_Statistics ==
    (Counted /\ last.ret.args.systems # <<>>) =>
        LET systems == last.ret.args.systems
            stats == last.ret.result
            dist == stats.spectral_type_distribution
            lettered == { i \in 1..Len(systems) :
                            systems[i].spectral_type \notin {<<>>, Unknown} }
            letter(i) == upper(<<systems[i].spectral_type[1]>>)[1]
        IN  /\ stats.total_systems = Len(systems)
            /\ stats.systems_with_planets =
                 Cardinality({ i \in 1..Len(systems) : Len(systems[i].planets) >= 1 })
            /\ stats.total_planets =
                 Cardinality({ ij \in (1..Len(systems)) \X (1..MaxPlanets + 1) :
                                 ij[2] <= Len(systems[ij[1]].planets) })
            /\ DOMAIN dist = { letter(i) : i \in lettered }
            /\ \A l \in DOMAIN dist :
                 dist[l] = Cardinality({ i \in lettered : letter(i) = l })
            /\ stats.systems_with_planets <= stats.total_systems
            /\ SumOf(dist) <= stats.total_systems

(* Spectral types "k5", "K5V" and "Unknown": the distribution has the      *)
(* letter K alone, twice.                                                 *)
C25_Witness ==
    /\ Counted
    /\ Len(last.ret.args.systems) = 3
    /\ \E i \in 1..3 : last.ret.args.systems[i].spectral_type = <<"k", "5">>
    /\ \E i \in 1..3 : last.ret.args.systems[i].spectral_type = <<"K", "5", "V">>
    /\ \E i \in 1..3 : last.ret.args.systems[i].spectral_type = Unknown
    /\ DOMAIN last.ret.result.spectral_type_distribution = {"K"}
    /\ last.ret.result.spectral_type_distribution["K"] = 2
    /\ last.ret.result.total_planets = 3

(* The list A ("G2V", 10.0, 1 planet), B ("K5V", 20.0, 2 planets),         *)
(* C ("M5V", 0.0, 0 planets).                                              *)
ExampleABC ==
    /\ Counted
    /\ Len(last.ret.args.systems) = 3
    /\ \A i \in 1..3 :
         /\ last.ret.args.systems[i].name = <<"A", "B", "C">>[i]
         /\ last.ret.args.systems[i].spectral_type =
              << <<"G", "2", "V">>, <<"K", "5", "V">>, <<"M", "5", "V">> >>[i]
         /\ last.ret.args.systems[i].distance_ly = <<10, 20, 0>>[i]
         /\ Len(last.ret.args.systems[i].planets) = <<1, 2, 0>>[i]

ExampleAggregates ==
    /\ last.ret.result.total_systems = 3
    /\ last.ret.result.systems_with_planets = 2
    /\ last.ret.result.total_planets = 3
    /\ last.ret.result.avg_distance = 1500
    /\ last.ret.result.avg_planets_per_system = 100

(* C26 as stated: for A, B and C the aggregates are 3, 2, 3, 15.0 and 1.0  *)
(* and the distribution has G once and K once and nothing else.            *)
C26_ExampleAsStated ==
    ExampleABC =>
        /\ ExampleAggregates
        /\ DOMAIN last.ret.result.spectral_type_distribution = {"G", "K"}
        /\ \A l \in {"G", "K"} : last.ret.result.spectral_type_distribution[l] = 1

(* C26: for A, B and C the aggregates are 3, 2, 3, 15.0 (C is left out of  *)
(* the average) and 1.0, and the distribution has G, K and M once each.    *)
C26_Example ==
    ExampleABC =>
        /\ ExampleAggregates
        /\ DOMAIN last.ret.result.spectral_type_distribution = {"G", "K", "M"}
        /\ \A l \in {"G", "K", "M"} : last.ret.result.spectral_type_distribution[l] = 1

(* get_statistics has returned for A, B and C, with M in the distribution. *)
C26_Witness ==
    /\ ExampleABC
    /\ last.ret.result.avg_distance = 1500
    /\ "M" \in DOMAIN last.ret.result.spectral_type_distribution

-----------------------------------------------------------------------------
(* Properties of save and save_batch under storage errors *)

(* C27: a step in which save raises, at the system upsert, at a planet     *)
(* upsert or at the commit, leaves the store exactly as it was before the  *)
(* call: no system row and no planet row of that call is kept.             *)
C27_SaveAllOrNothing ==
    [][(last'.op = "save" /\ last'.raised) => db' = db]_vars

(* save has raised at a planet upsert, after the system upsert ran, and    *)
(* the store has no row of that system.                                    *)
C27_Witness ==
    /\ last.op = "save"
    /\ last.raised
    /\ last.ret.at >= 2
    /\ last.name \notin StoredNames(db)
    /\ \A r \in BagToSet(db.planets) : r.system_name # last.name

(* C28 as stated: when save_batch has returned, every system row and every *)
(* planet row of the store belongs to a system that was saved without an   *)
(* error; a system counted as failed has left no row behind.               *)
C28_BatchAllOrNothing ==
    BatchReturned =>
        /\ \A r \in BagToSet(db.star_systems) : r.name \in saved
        /\ \A r \in BagToSet(db.planets) : r.system_name \in saved

(* C29: when save_batch returns from a list of which no system met an     *)
(* error, it returns (number of systems given, 0) and the store is the one *)
(* that save(s) of each system, in list order, leaves from the store the   *)
(* batch began with; a name that the list repeats is one of these cases.   *)
C29_BatchAsSaves ==
    [][ \A c \in Callers :
          ( /\ pc[c] = "batch"
            /\ last'.op = "save_batch"
            /\ ~last'.raised
            /\ last'.ret.caller = c
            /\ errs[c] = 0 )
          => /\ last'.ret.success = given[c]
             /\ last'.ret.failed = 0
             /\ db' = serial[c] ]_vars

(* A batch of two systems named A has returned (2, 0): the store has one   *)
(* row A with the spectral_type and distance_ly of the second and the      *)
(* planets b and c of both.                                                *)
C29_Witness ==
    /\ BatchReturned
    /\ last.ret.given = 2
    /\ last.ret.success = 2
    /\ last.ret.errs = 0
    /\ last.ret.okNames = {"A"}
    /\ db.star_systems = SetToBag({SystemRow(System("A", <<"K5V", 20>>, <<>>))})
    /\ PlanetKeys(db) = {<<"b", "A">>, <<"c", "A">>}

(* C30: from an empty store, whatever save, save_batch (systems that fail  *)
(* included) and delete_all have done, every planet row has the name of    *)
(* one of the system rows as its system_name, in the committed store and   *)
(* in the view of an open batch, so find_all() returns as many planets as  *)
(* there are planet rows.                                                  *)
C30_NoOrphanPlanets ==
    LET owned(st) ==
            \A r \in BagToSet(st.planets) :
                \E x \in BagToSet(st.star_systems) : x.name = r.system_name
        loaded == find_all(db)
    IN  /\ owned(db)
        /\ \A c \in Callers : pc[c] = "batch" => owned(View(c))
        /\ SumSeq([i \in 1..Len(loaded) |-> Len(loaded[i].planets)])
             = BagCardinality(db.planets)

(* A batch with a failed system has returned and the store holds the       *)
(* planet rows of two systems.                                             *)
C30_Witness ==
    /\ BatchReturned
    /\ last.ret.errs >= 1
    /\ { r.system_name : r \in BagToSet(db.planets) } = {"A", "B"}
    /\ StoredNames(db) = {"A", "B"}

====
